---- MODULE Spec2Model ----
(***************************************************************************)
(* Theme registry and apply routine of the portfolio site                  *)
(* (src/src/themes/index.ts, src/src/themes/constants.ts).                 *)
(*                                                                         *)
(* Strings that the code parses or rewrites (colour values, colour keys,   *)
(* CSS property names) are sequences of one-character strings; strings     *)
(* that are only stored and compared (theme ids, style text) are strings.  *)
(* A JavaScript value that may be undefined / null is a sequence of length *)
(* at most one: << >> is undefined / null, <<v>> is the value v.           *)
(***************************************************************************)
EXTENDS Integers, Sequences, FiniteSets, TLC

VARIABLES
  themes,        \* the registry Map: sequence of [key, value] in insertion order
  allThemes,     \* the exported array built from the registry at module load
  rootStyle,     \* document.documentElement.style: property name -> value
  classList,     \* document.documentElement.classList
  styleEls,      \* textContent of the elements with id 'theme-styles', document order
  dataTheme,     \* document.documentElement.dataset.theme
  localStorage,  \* the item stored under THEME_STORAGE_KEY
  listener,      \* the 'theme:change' listener that re-enters the theme API, if any
  dispatched,    \* the events dispatched on window by the last call
  observed,      \* what a listener could read when each of those events arrived
  lastCall,      \* the last call of the public API: [op, arg, ret, throws]
  calc           \* a call of a colour / math utility: [fn, args, ret]

\* lastCall.op stands before lastCall: two calls differ by the operation
\* before their arguments and return values, which differ in kind, are compared
vars == <<themes, allThemes, rootStyle, classList, styleEls, dataTheme,
          localStorage, listener, dispatched, observed, lastCall.op, lastCall, calc>>

-----------------------------------------------------------------------------
(* Program constants                                                       *)

\* a default id that names no registered theme
DEFAULT_THEME_ID_Unregistered == "domain_warping"

DEFAULT_THEME_ID == "domain-warping"

CSS_VAR_PREFIX == <<"-","-","t","h","e","m","e","-">>

-----------------------------------------------------------------------------
(* JavaScript values                                                       *)

None == << >>

Some(v) == <<v>>

\* String(undefined): what a regular expression sees of an undefined argument
UndefinedChars == <<"u","n","d","e","f","i","n","e","d">>

\* x ?? y
Coalesce(x, y) == IF x = None THEN y ELSE x

UpperAlpha == {"A","B","C","D","E","F","G","H","I","J","K","L","M",
               "N","O","P","Q","R","S","T","U","V","W","X","Y","Z"}

LowerAlpha == {"a","b","c","d","e","f","g","h","i","j","k","l","m",
               "n","o","p","q","r","s","t","u","v","w","x","y","z"}

Digits == {"0","1","2","3","4","5","6","7","8","9"}

\* String.prototype.toLowerCase on one character
ToLowerChar(c) ==
  CASE c = "A" -> "a" [] c = "B" -> "b" [] c = "C" -> "c" [] c = "D" -> "d"
    [] c = "E" -> "e" [] c = "F" -> "f" [] c = "G" -> "g" [] c = "H" -> "h"
    [] c = "I" -> "i" [] c = "J" -> "j" [] c = "K" -> "k" [] c = "L" -> "l"
    [] c = "M" -> "m" [] c = "N" -> "n" [] c = "O" -> "o" [] c = "P" -> "p"
    [] c = "Q" -> "q" [] c = "R" -> "r" [] c = "S" -> "s" [] c = "T" -> "t"
    [] c = "U" -> "u" [] c = "V" -> "v" [] c = "W" -> "w" [] c = "X" -> "x"
    [] c = "Y" -> "y" [] c = "Z" -> "z" [] OTHER -> c

ToLowerCase(s) == [i \in 1..Len(s) |-> ToLowerChar(s[i])]

-----------------------------------------------------------------------------
(* Rational numbers n/d in lowest terms: colour channels in 0..1           *)

RECURSIVE Gcd(_, _)
Gcd(a, b) == IF b = 0 THEN a ELSE Gcd(b, a % b)

Frac(n, d) == IF n = 0 THEN <<0, 1>> ELSE <<n \div Gcd(n, d), d \div Gcd(n, d)>>

(* A JavaScript number is a pair <<n, d>>: the rational n/d in lowest terms *)
(* with d > 0, or <<1, 0>> for Infinity, <<-1, 0>> for -Infinity and        *)
(* <<0, 0>> for NaN.  Arithmetic is exact: the rounding of IEEE doubles is  *)
(* not modelled.                                                            *)

Abs(x) == IF x < 0 THEN -x ELSE x

Sign(x) == IF x < 0 THEN -1 ELSE IF x > 0 THEN 1 ELSE 0

Num(n, d) ==
  IF d = 0 THEN <<Sign(n), 0>>
  ELSE IF n = 0 THEN <<0, 1>>
  ELSE LET g == Gcd(Abs(n), Abs(d)) IN <<(Sign(d) * n) \div g, Abs(d) \div g>>

NaN == <<0, 0>>

\* a - b
NumSub(a, b) == Num(a[1] * b[2] - b[1] * a[2], a[2] * b[2])

\* a * b
NumMul(a, b) == Num(a[1] * b[1], a[2] * b[2])

\* a / b: x/0 is Infinity, -Infinity or NaN by the sign of x
NumDiv(a, b) ==
  LET recip == IF b[1] < 0 THEN <<-b[2], -b[1]>> ELSE <<b[2], b[1]>> IN
  NumMul(a, recip)

\* a < b; false when either is NaN
NumLess(a, b) ==
  /\ a # NaN /\ b # NaN
  /\ IF a[2] = 0 /\ b[2] = 0 THEN a[1] < b[1] ELSE a[1] * b[2] < b[1] * a[2]

\* Math.max and Math.min: NaN when either argument is NaN
MathMax(a, b) == IF a = NaN \/ b = NaN THEN NaN ELSE IF NumLess(a, b) THEN b ELSE a

MathMin(a, b) == IF a = NaN \/ b = NaN THEN NaN ELSE IF NumLess(b, a) THEN b ELSE a

\* Math.round of a finite number: the integer floor(x + 1/2)
MathRound(a) == (2 * a[1] + a[2]) \div (2 * a[2])

-----------------------------------------------------------------------------
(* Colour utilities                                                        *)

\* the character class [a-f\d] under the i flag
IsHexDigit(c) == ToLowerChar(c) \in (Digits \cup {"a","b","c","d","e","f"})

HexValue(c) ==
  LET l == ToLowerChar(c) IN
  CASE l = "0" -> 0 [] l = "1" -> 1 [] l = "2" -> 2 [] l = "3" -> 3
    [] l = "4" -> 4 [] l = "5" -> 5 [] l = "6" -> 6 [] l = "7" -> 7
    [] l = "8" -> 8 [] l = "9" -> 9 [] l = "a" -> 10 [] l = "b" -> 11
    [] l = "c" -> 12 [] l = "d" -> 13 [] l = "e" -> 14 [] l = "f" -> 15

\* parseInt(s, 16) of a two-digit group
ParseInt16(s) == 16 * HexValue(s[1]) + HexValue(s[2])

\* the same expression without the closing '$': characters may follow the
\* six digits
HexMatch_Unanchored(hex) ==
  LET body == IF Len(hex) > 0 /\ hex[1] = "#" THEN Tail(hex) ELSE hex IN
  IF Len(body) >= 6 /\ \A i \in 1..6 : IsHexDigit(body[i])
  THEN Some(<<SubSeq(body, 1, 2), SubSeq(body, 3, 4), SubSeq(body, 5, 6)>>)
  ELSE None

\* /^#?([a-f\d]{2})([a-f\d]{2})([a-f\d]{2})$/i.exec(hex): the three groups,
\* or None when the string does not match
HexMatch(hex) ==
  LET body == IF Len(hex) > 0 /\ hex[1] = "#" THEN Tail(hex) ELSE hex IN
  IF Len(body) = 6 /\ \A i \in 1..6 : IsHexDigit(body[i])
  THEN Some(<<SubSeq(body, 1, 2), SubSeq(body, 3, 4), SubSeq(body, 5, 6)>>)
  ELSE None

\* hexToRgb(hex); an undefined argument is matched as the text "undefined"
hexToRgb(hex) ==
  LET str    == IF hex = None THEN UndefinedChars ELSE hex[1]
      result == HexMatch(str) IN
  IF result = None THEN <<Frac(0, 1), Frac(0, 1), Frac(0, 1)>>
  ELSE <<Frac(ParseInt16(result[1][1]), 255),
         Frac(ParseInt16(result[1][2]), 255),
         Frac(ParseInt16(result[1][3]), 255)>>

HexDigits == <<"0","1","2","3","4","5","6","7","8","9","a","b","c","d","e","f">>

\* the digits of a non-negative integer in base 16
RECURSIVE ToString16Nat(_)
ToString16Nat(v) ==
  IF v < 16 THEN <<HexDigits[v + 1]>>
  ELSE Append(ToString16Nat(v \div 16), HexDigits[(v % 16) + 1])

\* Number.prototype.toString(16) of an integer: a negative one has a '-' sign
ToString16(v) == IF v < 0 THEN <<"-">> \o ToString16Nat(-v) ELSE ToString16Nat(v)

\* String.prototype.padStart(len, ch): a string of len or more is returned as is
PadStart(str, len, ch) ==
  IF Len(str) >= len THEN str ELSE [i \in 1..(len - Len(str)) |-> ch] \o str

\* the channel written without padStart
toHex_NoPad(n) == ToString16(MathRound(NumMul(n, <<255, 1>>)))

\* const toHex = (n) => Math.round(n * 255).toString(16).padStart(2, '0')
toHex(n) == PadStart(ToString16(MathRound(NumMul(n, <<255, 1>>))), 2, "0")

rgbToHex(r, g, b) == <<"#">> \o toHex(r) \o toHex(g) \o toHex(b)

\* Math.max(value, min): the upper limit is not applied
clamp_NoUpper(value, min, max) == MathMax(value, min)

clamp(value, min, max) == MathMin(MathMax(value, min), max)

smoothstep(edge0, edge1, x) ==
  LET t == clamp(NumDiv(NumSub(x, edge0), NumSub(edge1, edge0)), <<0, 1>>, <<1, 1>>) IN
  NumMul(NumMul(t, t), NumSub(<<3, 1>>, NumMul(<<2, 1>>, t)))

\* str.replace(/([a-z0-9])([A-Z])/g, '$1-$2'): matches are taken left to
\* right and do not overlap
RECURSIVE InsertDashes(_)
InsertDashes(s) ==
  IF Len(s) < 2 THEN s
  ELSE IF s[1] \in (LowerAlpha \cup Digits) /\ s[2] \in UpperAlpha
       THEN <<s[1], "-", s[2]>> \o InsertDashes(SubSeq(s, 3, Len(s)))
       ELSE <<s[1]>> \o InsertDashes(Tail(s))

camelToKebab(str) == ToLowerCase(InsertDashes(str))

-----------------------------------------------------------------------------
(* Theme objects.  A theme object is named by its reference; Heap gives    *)
(* the fields of each object.  colors is the sequence Object.entries       *)
(* yields: <<key, value>> pairs in property order.                         *)

domainWarpingColors ==
  <<
     <<<<"b","a","c","k","g","r","o","u","n","d">>, <<"#","1","f","3","9","1","e">>>>,
     <<<<"b","a","c","k","g","r","o","u","n","d","A","l","t">>, <<"#","1","5","4","a","3","8">>>>,
     <<<<"s","u","r","f","a","c","e">>, <<"#","4","6","1","f","1","d">>>>,
     <<<<"s","u","r","f","a","c","e","H","o","v","e","r">>, <<"#","6","b","3","0","3","8">>>>,
     <<<<"t","e","x","t">>, <<"#","f","5","f","0","f","2">>>>,
     <<<<"t","e","x","t","M","u","t","e","d">>, <<"#","c","9","9","1","c","c">>>>,
     <<<<"t","e","x","t","I","n","v","e","r","s","e">>, <<"#","1","f","3","9","1","e">>>>,
     <<<<"a","c","c","e","n","t">>, <<"#","b","f","4","7","9","b">>>>,
     <<<<"a","c","c","e","n","t","H","o","v","e","r">>, <<"#","c","9","7","6","9","b">>>>,
     <<<<"a","c","c","e","n","t","M","u","t","e","d">>, <<"#","7","c","5","9","b","0">>>>,
     <<<<"b","o","r","d","e","r">>, <<"#","6","b","3","0","3","8">>>>,
     <<<<"b","o","r","d","e","r","M","u","t","e","d">>, <<"#","4","6","1","f","1","d">>>>
  >>

tennisColors ==
  <<
     <<<<"b","a","c","k","g","r","o","u","n","d">>, <<"#","0","a","0","a","0","8">>>>,
     <<<<"b","a","c","k","g","r","o","u","n","d","A","l","t">>, <<"#","1","2","1","2","1","0">>>>,
     <<<<"s","u","r","f","a","c","e">>, <<"#","1","6","1","6","1","4">>>>,
     <<<<"s","u","r","f","a","c","e","H","o","v","e","r">>, <<"#","1","e","1","e","1","a">>>>,
     <<<<"t","e","x","t">>, <<"#","f","5","f","5","f","0">>>>,
     <<<<"t","e","x","t","M","u","t","e","d">>, <<"#","8","a","8","a","8","0">>>>,
     <<<<"t","e","x","t","I","n","v","e","r","s","e">>, <<"#","0","a","0","a","0","8">>>>,
     <<<<"a","c","c","e","n","t">>, <<"#","c","c","f","f","0","0">>>>,
     <<<<"a","c","c","e","n","t","H","o","v","e","r">>, <<"#","e","0","f","f","4","d">>>>,
     <<<<"a","c","c","e","n","t","M","u","t","e","d">>, <<"#","9","9","b","f","0","0">>>>,
     <<<<"b","o","r","d","e","r">>, <<"#","2","a","2","a","2","6">>>>,
     <<<<"b","o","r","d","e","r","M","u","t","e","d">>, <<"#","1","e","1","e","1","a">>>>
  >>

paperColors ==
  <<
     <<<<"b","a","c","k","g","r","o","u","n","d">>, <<"#","F","A","F","A","F","5">>>>,
     <<<<"b","a","c","k","g","r","o","u","n","d","A","l","t">>, <<"f","0","f","0","e","8">>>>,
     <<<<"s","u","r","f","a","c","e">>, <<"#","F","F","F","F","F","F">>>>,
     <<<<"s","u","r","f","a","c","e","H","o","v","e","r">>, <<"#","E","e","E","e","E","4">>>>,
     <<<<"t","e","x","t">>, <<"#","1","1","1","1","1","1">>>>,
     <<<<"t","e","x","t","M","u","t","e","d">>, <<"#","6","6","6","6","6","0">>>>,
     <<<<"t","e","x","t","I","n","v","e","r","s","e">>, <<"#","f","a","f","a","f","5">>>>,
     <<<<"a","c","c","e","n","t">>, <<"#","0","0","5","7","B","8">>>>,
     <<<<"a","c","c","e","n","t","H","o","v","e","r">>, <<"#","3","3","7","9","c","6">>>>,
     <<<<"a","c","c","e","n","t","M","u","t","e","d">>, <<"#","9","9","b","c","e","3">>>>,
     <<<<"b","o","r","d","e","r">>, <<"#","d","0","d","0","c","8">>>>,
     <<<<"b","o","r","d","e","r","M","u","t","e","d">>, <<"#","e","4","e","4","d","c">>>>
  >>

altDefaultColors ==
  <<
     <<<<"b","a","c","k","g","r","o","u","n","d">>, <<"#","f","f","f">>>>,
     <<<<"s","u","r","f","a","c","e">>, <<"#","1","2","3","4","5","g">>>>,
     <<<<"t","e","x","t">>, <<"#","2","0","2","0","2","0">>>>,
     <<<<"a","c","c","e","n","t">>, <<"#","#","b","f","4","7","9","b">>>>,
     <<<<"a","c","c","e","n","t","H","o","v","e","r">>, <<"#","c","9","7","6","9","b","f","f">>>>,
     <<<<"b","o","r","d","e","r">>, <<"#","8","0","8","0","8","0">>>>
  >>

magmaColors ==
  <<
     <<<<"b","a","c","k","g","r","o","u","n","d">>, <<"#","0","0","0","0","0","0">>>>,
     <<<<"b","a","c","k","g","r","o","u","n","d","A","l","t">>, <<"#","0","a","0","a","0","a">>>>,
     <<<<"s","u","r","f","a","c","e">>, <<"#","1","1","1","1","1","1">>>>,
     <<<<"s","u","r","f","a","c","e","H","o","v","e","r">>, <<"#","1","a","1","a","1","a">>>>,
     <<<<"t","e","x","t">>, <<"#","f","f","f","f","f","f">>>>,
     <<<<"t","e","x","t","M","u","t","e","d">>, <<"#","8","8","8","8","8","8">>>>,
     <<<<"t","e","x","t","I","n","v","e","r","s","e">>, <<"#","0","0","0","0","0","0">>>>,
     <<<<"a","c","c","e","n","t">>, <<"#","f","f","6","6","0","0">>>>,
     <<<<"a","c","c","e","n","t","H","o","v","e","r">>, <<"#","f","f","8","5","3","3">>>>,
     <<<<"a","c","c","e","n","t","M","u","t","e","d">>, <<"#","9","9","3","d","0","0">>>>,
     <<<<"b","o","r","d","e","r">>, <<"#","3","d","2","a","1","a">>>>,
     <<<<"b","o","r","d","e","r","M","u","t","e","d">>, <<"#","2","a","1","d","1","2">>>>
  >>


\* The built-in themes and the theme objects a caller may hand to
\* registerTheme / applyTheme at run time.
Heap ==
  [ domainWarpingTheme |->
      [config |-> [id |-> "domain-warping", isDark |-> TRUE],
       colors |-> domainWarpingColors, styles |-> None],
    tennisTheme |->
      [config |-> [id |-> "tennis", isDark |-> TRUE],
       colors |-> tennisColors, styles |-> None],
    paperTheme |->
      [config |-> [id |-> "paper", isDark |-> FALSE],
       colors |-> paperColors, styles |-> Some("body { font-family: serif }")],
    altDefaultTheme |->
      [config |-> [id |-> "domain-warping", isDark |-> FALSE],
       colors |-> altDefaultColors, styles |-> Some("")],
    magmaTheme |->
      [config |-> [id |-> "", isDark |-> TRUE],
       colors |-> magmaColors, styles |-> None] ]

ThemeRefs == DOMAIN Heap

\* ids a caller may pass to the lookups and to setTheme
CallIds == {"domain-warping", "tennis", "paper", ""}

\* ids a re-entering 'theme:change' listener may force
ListenerIds == {"tennis"}

\* colors[key]: a property read, undefined when the object lacks the key
Prop(colors, key) ==
  LET hits == {i \in 1..Len(colors) : colors[i][1] = key} IN
  IF hits = {} THEN None ELSE Some(colors[CHOOSE i \in hits : TRUE][2])

-----------------------------------------------------------------------------
(* The registry (index.ts)                                                 *)

\* new Map([['domain-warping', domainWarpingTheme], ['tennis', tennisTheme]])
BuiltinThemes ==
  << [key |-> "domain-warping", value |-> "domainWarpingTheme"],
     [key |-> "tennis", value |-> "tennisTheme"] >>

\* Map.prototype.get
MapGet(m, k) ==
  LET hits == {i \in 1..Len(m) : m[i].key = k} IN
  IF hits = {} THEN None ELSE Some(m[CHOOSE i \in hits : TRUE].value)

\* delete(k) then set(k, v): a key that is set again moves to the end
MapSet_MoveToEnd(m, k, v) ==
  Append(SelectSeq(m, LAMBDA e : e.key # k), [key |-> k, value |-> v])

\* Map.prototype.set: an existing key keeps its place, a new key goes last
MapSet(m, k, v) ==
  IF \E i \in 1..Len(m) : m[i].key = k
  THEN [i \in 1..Len(m) |-> IF m[i].key = k THEN [key |-> k, value |-> v] ELSE m[i]]
  ELSE Append(m, [key |-> k, value |-> v])

\* Map.prototype.has
MapHas(m, k) == \E i \in 1..Len(m) : m[i].key = k

\* themes.get(id) ?? getDefaultTheme(): a lookup that never misses
getTheme_OrDefault(m, id) == Coalesce(MapGet(m, id), MapGet(m, DEFAULT_THEME_ID))

getTheme(m, id) == MapGet(m, id)

\* return domainWarpingTheme: the built-in object, whatever the registry holds
getDefaultTheme_Builtin(m) == "domainWarpingTheme"

getDefaultTheme(m) == Coalesce(MapGet(m, DEFAULT_THEME_ID), Some("domainWarpingTheme"))[1]

hasTheme(m, id) == MapHas(m, id)

getThemeIds(m) == [i \in 1..Len(m) |-> m[i].key]

\* if (!themes.has(id)) themes.set(id, theme): a registration that never overwrites
registerTheme_NoOverwrite(m, theme) ==
  IF MapHas(m, Heap[theme].config.id) THEN m
  ELSE MapSet(m, Heap[theme].config.id, theme)

\* a registry rebuilt from the built-ins on each registration: the themes
\* registered earlier at run time are dropped
registerTheme_FromBuiltins(m, theme) == MapSet(BuiltinThemes, Heap[theme].config.id, theme)

registerTheme(m, theme) == MapSet(m, Heap[theme].config.id, theme)

-----------------------------------------------------------------------------
(* The apply routine (utils part of constants.ts).  A world w is the       *)
(* record of everything the routine touches; each function returns the     *)
(* world it leaves behind.                                                 *)

\* root.style.setProperty(name, value), value not empty
SetProperty(style, name, value) ==
  [n \in (DOMAIN style) \cup {name} |-> IF n = name THEN value ELSE style[n]]

\* `${CSS_VAR_PREFIX}${camelToKebab(key)}` for the keys of the theme objects
ColorKeys ==
  UNION {{Heap[t].colors[i][1] : i \in 1..Len(Heap[t].colors)} : t \in ThemeRefs}

CssVar == [key \in ColorKeys |-> CSS_VAR_PREFIX \o camelToKebab(key)]

RECURSIVE SetEntries(_, _)
SetEntries(style, entries) ==
  IF entries = << >> THEN style
  ELSE SetEntries(
         SetProperty(style, CssVar[entries[1][1]], entries[1][2]),
         Tail(entries))

\* root.style.cssText = '' first: the properties of the earlier theme are dropped
applyThemeColors_Reset(w, colors) ==
  [w EXCEPT !.rootStyle = SetEntries(<< >>, colors)]

applyThemeColors(w, colors) ==
  [w EXCEPT !.rootStyle = SetEntries(@, colors)]

\* the new element is appended without removing the existing one
applyThemeStyles_NoRemove(w, styles, themeId) ==
  IF styles = None \/ styles[1] = ""
  THEN w
  ELSE [w EXCEPT !.styleEls = Append(@, styles[1])]

\* getElementById finds the first element with the id; only that one is removed
applyThemeStyles(w, styles, themeId) ==
  LET removed == IF w.styleEls = << >> THEN << >> ELSE Tail(w.styleEls) IN
  IF styles = None \/ styles[1] = ""
  THEN [w EXCEPT !.styleEls = removed]
  ELSE [w EXCEPT !.styleEls = Append(removed, styles[1])]

\* if (isDark) classList.add('dark'): the class is never removed
setDarkMode_AddOnly(w, isDark) ==
  [w EXCEPT !.classList = IF isDark THEN @ \cup {"dark"} ELSE @]

\* classList.toggle('dark') without the force argument: the class flips on
\* every call that asks for dark mode
setDarkMode_Flip(w, isDark) ==
  [w EXCEPT !.classList = IF isDark
                          THEN (IF "dark" \in @ THEN @ \ {"dark"} ELSE @ \cup {"dark"})
                          ELSE @ \ {"dark"}]

\* classList.toggle('dark', isDark)
setDarkMode(w, isDark) ==
  [w EXCEPT !.classList = IF isDark THEN @ \cup {"dark"} ELSE @ \ {"dark"}]

\* localStorage.setItem(THEME_STORAGE_KEY, themeId) either stores the id or throws
SetItem(w, themeId, env) ==
  IF env.setItemThrows THEN [w EXCEPT !.raised = TRUE]
  ELSE [w EXCEPT !.localStorage = Some(themeId)]

\* setItem outside any try: its exception leaves the function
saveThemePreference_NoCatch(w, themeId, env) == SetItem(w, themeId, env)

\* if (getItem(KEY) === null) setItem(KEY, themeId): a stored preference is kept
saveThemePreference_KeepExisting(w, themeId, env) ==
  IF w.localStorage # None THEN w
  ELSE [SetItem(w, themeId, env) EXCEPT !.raised = FALSE]

\* try { setItem } catch { }: an exception of setItem is swallowed
saveThemePreference(w, themeId, env) ==
  [SetItem(w, themeId, env) EXCEPT !.raised = FALSE]

\* localStorage.getItem(THEME_STORAGE_KEY) either returns the item or throws
GetItem(w, getItemThrows) ==
  [threw |-> getItemThrows,
   value |-> IF getItemThrows THEN None ELSE w.localStorage]

\* getItem outside any try: its exception leaves the function
loadThemePreference_NoCatch(w, getItemThrows) ==
  LET r == GetItem(w, getItemThrows) IN
  [raised |-> r.threw, value |-> r.value]

\* try { return getItem } catch { return null }: the value returned, and
\* whether an exception left the function
loadThemePreference(w, getItemThrows) ==
  LET r == GetItem(w, getItemThrows) IN
  [raised |-> FALSE, value |-> IF r.threw THEN None ELSE r.value]

\* lifted taken from backgroundAlt instead of surface
themeColorsToShaderColors_LiftedAlt(colors) ==
  [base    |-> hexToRgb(Prop(colors, <<"b","a","c","k","g","r","o","u","n","d">>)),
   lifted  |-> hexToRgb(Prop(colors, <<"b","a","c","k","g","r","o","u","n","d","A","l","t">>)),
   accent1 |-> hexToRgb(Prop(colors, <<"a","c","c","e","n","t">>)),
   accent2 |-> hexToRgb(Prop(colors, <<"a","c","c","e","n","t","H","o","v","e","r">>)),
   accent3 |-> hexToRgb(Prop(colors, <<"a","c","c","e","n","t","M","u","t","e","d">>))]

themeColorsToShaderColors(colors) ==
  [base    |-> hexToRgb(Prop(colors, <<"b","a","c","k","g","r","o","u","n","d">>)),
   lifted  |-> hexToRgb(Prop(colors, <<"s","u","r","f","a","c","e">>)),
   accent1 |-> hexToRgb(Prop(colors, <<"a","c","c","e","n","t">>)),
   accent2 |-> hexToRgb(Prop(colors, <<"a","c","c","e","n","t","H","o","v","e","r">>)),
   accent3 |-> hexToRgb(Prop(colors, <<"a","c","c","e","n","t","M","u","t","e","d">>))]

\* themeColorsToShaderColors(theme.colors) of each theme object
ShaderColorsOf == [t \in ThemeRefs |-> themeColorsToShaderColors(Heap[t].colors)]

\* new CustomEvent('theme:change', {detail})
ThemeChangeEvent(theme) ==
  [type   |-> "theme:change",
   detail |-> [themeId |-> Heap[theme].config.id,
               colors  |-> ShaderColorsOf[theme],
               isDark  |-> Heap[theme].config.isDark]]

\* what a listener can read of the document and the storage while it runs
Snapshot(w) ==
  [rootStyle |-> w.rootStyle, classList |-> w.classList, styleEls |-> w.styleEls,
   dataTheme |-> w.dataTheme, localStorage |-> w.localStorage]

RECURSIVE applyTheme(_, _, _)

\* a miss that applies the default theme before returning false
setTheme_MissAppliesDefault(w, id, env) ==
  LET theme == MapGet(env.themes, id) IN
  IF theme = None
  THEN [w |-> applyTheme(w, getDefaultTheme(env.themes), env), ret |-> FALSE]
  ELSE [w |-> applyTheme(w, theme[1], env), ret |-> TRUE]

\* a lookup in the themes the module was loaded with, not in the registry
setTheme_FromBuiltins(w, id, env) ==
  LET theme == MapGet(BuiltinThemes, id) IN
  IF theme = None THEN [w |-> w, ret |-> FALSE]
  ELSE [w |-> applyTheme(w, theme[1], env), ret |-> TRUE]

\* setTheme on a world: the world left behind and the value returned
setTheme(w, id, env) ==
  LET theme == MapGet(env.themes, id) IN
  IF theme = None THEN [w |-> w, ret |-> FALSE]
  ELSE [w |-> applyTheme(w, theme[1], env), ret |-> TRUE]

\* the re-entering listener: (e) => { if (e.detail.themeId !== id) setTheme(id) }
RunListener(w, event, env) ==
  IF env.listener = None \/ event.detail.themeId = env.listener[1]
  THEN w
  ELSE setTheme(w, env.listener[1], env).w

\* window.dispatchEvent delivers the event synchronously, before it returns
dispatchThemeChange(w, theme, env) ==
  LET event == ThemeChangeEvent(theme)
      sent  == [w EXCEPT !.dispatched = Append(@, event),
                         !.observed   = Append(@, Snapshot(w))] IN
  RunListener(sent, event, env)

SetDatasetTheme(w, themeId) == [w EXCEPT !.dataTheme = Some(themeId)]

\* the event dispatched first, before any facet of the document is written
applyTheme_DispatchFirst(w, theme, env) ==
  LET t  == Heap[theme]
      w1 == dispatchThemeChange(w, theme, env)
      w2 == applyThemeColors(w1, t.colors)
      w3 == applyThemeStyles(w2, t.styles, t.config.id)
      w4 == setDarkMode(w3, t.config.isDark)
      w5 == saveThemePreference(w4, t.config.id, env) IN
  IF w5.raised THEN w5 ELSE SetDatasetTheme(w5, t.config.id)

\* data-theme written before the event is dispatched
applyTheme_DatasetBeforeDispatch(w, theme, env) ==
  LET t  == Heap[theme]
      w1 == applyThemeColors(w, t.colors)
      w2 == applyThemeStyles(w1, t.styles, t.config.id)
      w3 == setDarkMode(w2, t.config.isDark)
      w4 == saveThemePreference(w3, t.config.id, env)
      w5 == SetDatasetTheme(w4, t.config.id) IN
  IF w4.raised THEN w4 ELSE dispatchThemeChange(w5, theme, env)

\* the preference is not persisted
applyTheme_NoSave(w, theme, env) ==
  LET t  == Heap[theme]
      w1 == applyThemeColors(w, t.colors)
      w2 == applyThemeStyles(w1, t.styles, t.config.id)
      w3 == setDarkMode(w2, t.config.isDark)
      w5 == dispatchThemeChange(w3, theme, env) IN
  SetDatasetTheme(w5, t.config.id)

applyTheme(w, theme, env) ==
  LET t  == Heap[theme]
      w1 == applyThemeColors(w, t.colors)
      w2 == applyThemeStyles(w1, t.styles, t.config.id)
      w3 == setDarkMode(w2, t.config.isDark)
      w4 == saveThemePreference(w3, t.config.id, env)
      w5 == dispatchThemeChange(w4, theme, env) IN
  \* an exception leaving saveThemePreference would end the routine there
  IF w4.raised THEN w4 ELSE SetDatasetTheme(w5, t.config.id)

\* applies the resolved theme but returns the default one
initializeTheme_ReturnsDefault(w, getItemThrows, env) ==
  LET load        == loadThemePreference(w, getItemThrows)
      savedId     == load.value
      theme       == IF savedId # None /\ savedId[1] # ""
                     THEN getTheme(env.themes, savedId[1]) ELSE None
      activeTheme == Coalesce(theme, Some(getDefaultTheme(env.themes)))[1] IN
  IF load.raised THEN [w |-> [w EXCEPT !.raised = TRUE], ret |-> None]
  ELSE [w |-> applyTheme(w, activeTheme, env), ret |-> getDefaultTheme(env.themes)]

\* savedId !== null ? getTheme(savedId) : undefined: '' is looked up
initializeTheme_NullCheck(w, getItemThrows, env) ==
  LET load        == loadThemePreference(w, getItemThrows)
      savedId     == load.value
      theme       == IF savedId # None THEN getTheme(env.themes, savedId[1]) ELSE None
      activeTheme == Coalesce(theme, Some(getDefaultTheme(env.themes)))[1] IN
  IF load.raised THEN [w |-> [w EXCEPT !.raised = TRUE], ret |-> None]
  ELSE [w |-> applyTheme(w, activeTheme, env), ret |-> activeTheme]

\* initializeTheme on a world: the world left behind and the theme returned
initializeTheme(w, getItemThrows, env) ==
  LET load        == loadThemePreference(w, getItemThrows)
      savedId     == load.value
      theme       == IF savedId # None /\ savedId[1] # ""
                     THEN getTheme(env.themes, savedId[1]) ELSE None
      activeTheme == Coalesce(theme, Some(getDefaultTheme(env.themes)))[1] IN
  \* an exception leaving loadThemePreference would end the function there
  IF load.raised THEN [w |-> [w EXCEPT !.raised = TRUE], ret |-> None]
  ELSE [w |-> applyTheme(w, activeTheme, env), ret |-> activeTheme]

-----------------------------------------------------------------------------
(* The state machine: one action per call of the public API                *)

\* the world a call starts from: no event dispatched yet
World ==
  [rootStyle |-> rootStyle, classList |-> classList, styleEls |-> styleEls,
   dataTheme |-> dataTheme, localStorage |-> localStorage,
   dispatched |-> << >>, observed |-> << >>, raised |-> FALSE]

Env(setItemThrows) ==
  [themes |-> themes, listener |-> listener, setItemThrows |-> setItemThrows]

\* the world a call leaves behind becomes the state
Becomes(w) ==
  /\ rootStyle' = w.rootStyle
  /\ classList' = w.classList
  /\ styleEls' = w.styleEls
  /\ dataTheme' = w.dataTheme
  /\ localStorage' = w.localStorage
  /\ dispatched' = w.dispatched
  /\ observed' = w.observed

\* the record of a call: its argument, the value it returned, whether it raised
\* to its caller, and what the environment did during it
Call(op, arg, ret, raised, getItemThrows, setItemThrows) ==
  [op |-> op, arg |-> arg, ret |-> ret, raised |-> raised, listener |-> listener,
   getItemThrows |-> getItemThrows, setItemThrows |-> setItemThrows]

\* no utility call is in progress
NoCalc == [fn |-> "none", args |-> << >>, ret |-> None]

Init ==
  /\ themes = BuiltinThemes
  /\ allThemes = [i \in 1..Len(BuiltinThemes) |-> BuiltinThemes[i].value]
  /\ rootStyle = << >>
  /\ classList \in {{}, {"dark"}}
  /\ styleEls = << >>
  /\ dataTheme = None
  /\ localStorage \in {None, Some("tennis"), Some("paper"), Some("")}
  /\ listener = None
  /\ dispatched = << >>
  /\ observed = << >>
  /\ lastCall = Call("load", None, None, FALSE, FALSE, FALSE)
  /\ calc = NoCalc

SetTheme(id, setItemThrows) ==
  LET r == setTheme(World, id, Env(setItemThrows)) IN
  /\ Becomes(r.w)
  /\ lastCall' = Call("setTheme", id, r.ret, r.w.raised, FALSE, setItemThrows)
  /\ UNCHANGED <<themes, allThemes, listener, calc>>

ApplyTheme(theme, setItemThrows) ==
  LET w == applyTheme(World, theme, Env(setItemThrows)) IN
  /\ Becomes(w)
  /\ lastCall' = Call("applyTheme", theme, None, w.raised, FALSE, setItemThrows)
  /\ UNCHANGED <<themes, allThemes, listener, calc>>

InitializeTheme(getItemThrows, setItemThrows) ==
  LET r == initializeTheme(World, getItemThrows, Env(setItemThrows)) IN
  /\ Becomes(r.w)
  /\ lastCall' = Call("initializeTheme", localStorage, r.ret, r.w.raised, getItemThrows, setItemThrows)
  /\ UNCHANGED <<themes, allThemes, listener, calc>>

\* a registration that applies the theme when its id is the applied one
RegisterTheme_Reapplies(theme) ==
  /\ themes' = registerTheme(themes, theme)
  /\ Becomes(IF dataTheme = Some(Heap[theme].config.id)
             THEN applyTheme(World, theme, Env(FALSE)) ELSE World)
  /\ lastCall' = Call("registerTheme", theme, None, FALSE, FALSE, FALSE)
  /\ UNCHANGED <<allThemes, listener, calc>>

\* allThemes kept as a live view of the registry
RegisterTheme_LiveAllThemes(theme) ==
  /\ themes' = registerTheme(themes, theme)
  /\ allThemes' = [i \in 1..Len(themes') |-> themes'[i].value]
  /\ Becomes(World)
  /\ lastCall' = Call("registerTheme", theme, None, FALSE, FALSE, FALSE)
  /\ UNCHANGED <<listener, calc>>

RegisterTheme(theme) ==
  /\ themes' = registerTheme(themes, theme)
  /\ Becomes(World)
  /\ lastCall' = Call("registerTheme", theme, None, FALSE, FALSE, FALSE)
  /\ UNCHANGED <<allThemes, listener, calc>>

\* a lookup that also applies the theme it finds
GetTheme_Applies(id) ==
  /\ Becomes(setTheme(World, id, Env(FALSE)).w)
  /\ lastCall' = Call("getTheme", id, getTheme(themes, id), FALSE, FALSE, FALSE)
  /\ UNCHANGED <<themes, allThemes, listener, calc>>

GetTheme(id) ==
  /\ Becomes(World)
  /\ lastCall' = Call("getTheme", id, getTheme(themes, id), FALSE, FALSE, FALSE)
  /\ UNCHANGED <<themes, allThemes, listener, calc>>

GetDefaultTheme ==
  /\ Becomes(World)
  /\ lastCall' = Call("getDefaultTheme", None, getDefaultTheme(themes), FALSE, FALSE, FALSE)
  /\ UNCHANGED <<themes, allThemes, listener, calc>>

HasTheme(id) ==
  /\ Becomes(World)
  /\ lastCall' = Call("hasTheme", id, hasTheme(themes, id), FALSE, FALSE, FALSE)
  /\ UNCHANGED <<themes, allThemes, listener, calc>>

GetThemeIds ==
  /\ Becomes(World)
  /\ lastCall' = Call("getThemeIds", None, getThemeIds(themes), FALSE, FALSE, FALSE)
  /\ UNCHANGED <<themes, allThemes, listener, calc>>

\* window.addEventListener('theme:change', ...) by a rendering surface
AddListener(id) ==
  /\ listener = None
  /\ listener' = Some(id)
  /\ UNCHANGED <<themes, allThemes, rootStyle, classList, styleEls, dataTheme,
                 localStorage, dispatched, observed, lastCall, calc>>

\* window.removeEventListener('theme:change', ...)
RemoveListener ==
  /\ listener # None
  /\ listener' = None
  /\ UNCHANGED <<themes, allThemes, rootStyle, classList, styleEls, dataTheme,
                 localStorage, dispatched, observed, lastCall, calc>>

Next ==
  \/ \E id \in CallIds, st \in BOOLEAN : SetTheme(id, st)
  \/ \E t \in ThemeRefs, st \in BOOLEAN : ApplyTheme(t, st)
  \/ \E gt \in BOOLEAN, st \in BOOLEAN : InitializeTheme(gt, st)
  \/ \E t \in ThemeRefs : RegisterTheme(t)
  \/ \E id \in CallIds : GetTheme(id)
  \/ GetDefaultTheme
  \/ \E id \in CallIds : HasTheme(id)
  \/ GetThemeIds

Spec == Init /\ [][Next]_vars

-----------------------------------------------------------------------------
(* The colour and math utilities, called on their own                      *)

\* the most two-character groups in a string handed to hexToRgb
MaxGroups == 4

\* the most '#' characters in front of the groups
MaxHashes == 2

\* channel values are the multiples of 1 / GridDen from -1 to 2
GridDen == 8

\* edges and arguments of smoothstep are the multiples of 1 / StepDen from -1 to 2
StepDen == 4

\* groups of hexadecimal digits in both cases, and groups no channel accepts
HexGroups == {<<"a","F">>, <<"9","c">>, <<"E","0">>, <<"0","g">>}

RECURSIVE Concat(_)
Concat(groups) == IF groups = << >> THEN << >> ELSE groups[1] \o Concat(Tail(groups))

\* up to MaxHashes '#', up to MaxGroups groups, then possibly one odd digit
HexInputs ==
  {[i \in 1..h |-> "#"] \o Concat(groups) \o odd :
     h \in 0..MaxHashes,
     groups \in UNION {[1..n -> HexGroups] : n \in 0..MaxGroups},
     odd \in {<< >>, <<"f">>}}

ChannelGrid == {Num(k, GridDen) : k \in (0 - GridDen)..(2 * GridDen)}

StepGrid == {Num(k, StepDen) : k \in (0 - StepDen)..(2 * StepDen)}

\* a caller about to call one of the utilities
PendingCalls ==
  {[fn |-> "hexToRgb", args |-> <<hex>>, ret |-> None] : hex \in HexInputs}
  \cup {[fn |-> "rgbToHex", args |-> <<r, g, b>>, ret |-> None] :
           r \in ChannelGrid, g \in ChannelGrid, b \in ChannelGrid}
  \cup {[fn |-> "smoothstep", args |-> <<e0, e1, x>>, ret |-> None] :
           e0 \in StepGrid, e1 \in StepGrid, x \in StepGrid}

InitUtils ==
  /\ themes = BuiltinThemes
  /\ allThemes = [i \in 1..Len(BuiltinThemes) |-> BuiltinThemes[i].value]
  /\ rootStyle = << >>
  /\ classList = {}
  /\ styleEls = << >>
  /\ dataTheme = None
  /\ localStorage = None
  /\ listener = None
  /\ dispatched = << >>
  /\ observed = << >>
  /\ lastCall = Call("load", None, None, FALSE, FALSE, FALSE)
  /\ calc \in PendingCalls

\* a utility returns: it touches neither the registry nor the document
Returns(value) ==
  /\ calc.ret = None
  /\ calc' = [calc EXCEPT !.ret = Some(value)]
  /\ UNCHANGED <<themes, allThemes, rootStyle, classList, styleEls, dataTheme,
                 localStorage, listener, dispatched, observed, lastCall>>

HexToRgb ==
  /\ calc.fn = "hexToRgb"
  /\ Returns(hexToRgb(Some(calc.args[1])))

RgbToHex ==
  /\ calc.fn = "rgbToHex"
  /\ Returns(rgbToHex(calc.args[1], calc.args[2], calc.args[3]))

Smoothstep ==
  /\ calc.fn = "smoothstep"
  /\ Returns(smoothstep(calc.args[1], calc.args[2], calc.args[3]))

NextUtils == HexToRgb \/ RgbToHex \/ Smoothstep

SpecUtils == InitUtils /\ [][NextUtils]_vars

\* the applying calls, on the registry as loaded, with a rendering surface
\* that may re-enter the theme API
NextReentrant ==
  \/ \E id \in CallIds, st \in BOOLEAN : SetTheme(id, st)
  \/ \E t \in ThemeRefs, st \in BOOLEAN : ApplyTheme(t, st)
  \/ \E gt \in BOOLEAN, st \in BOOLEAN : InitializeTheme(gt, st)
  \/ \E id \in ListenerIds : AddListener(id)
  \/ RemoveListener

SpecReentrant == Init /\ [][NextReentrant]_vars

-----------------------------------------------------------------------------
(* Properties of the theme API                                             *)

\* the call recorded in c applied a theme
IsApply(c) ==
  \/ c.op \in {"applyTheme", "initializeTheme"}
  \/ c.op = "setTheme" /\ c.ret = TRUE

\* the theme object the last call applied (the registry is as the call saw it)
AppliedTheme ==
  CASE lastCall.op = "applyTheme" -> lastCall.arg
    [] lastCall.op = "initializeTheme" -> lastCall.ret
    [] lastCall.op = "setTheme" -> MapGet(themes, lastCall.arg)[1]

RegisteredIds == {themes[i].key : i \in 1..Len(themes)}

\* every colour of theme object t is on the root under its '--theme-' name
ColorsOnRoot(t) ==
  \A i \in 1..Len(Heap[t].colors) :
    LET name == CSS_VAR_PREFIX \o camelToKebab(Heap[t].colors[i][1]) IN
    name \in DOMAIN rootStyle /\ rootStyle[name] = Heap[t].colors[i][2]

\* C1: setTheme(id) for an id that is not a key of the registry returns
\* false and changes nothing: the custom properties, the 'dark' class, the
\* 'theme-styles' element, data-theme and the persisted preference keep
\* their values and no 'theme:change' event is dispatched.
C1_SetThemeMissChangesNothing ==
  [][(lastCall'.op = "setTheme" /\ lastCall'.arg \notin RegisteredIds) =>
       /\ lastCall'.ret = FALSE
       /\ lastCall'.raised = FALSE
       /\ UNCHANGED <<rootStyle, classList, styleEls, dataTheme, localStorage, themes>>
       /\ dispatched' = << >>]_vars

C1_Witness ==
  /\ lastCall.op = "setTheme"
  /\ lastCall.arg = "paper"
  /\ lastCall.ret = FALSE
  /\ dataTheme = Some("tennis")
  /\ localStorage = Some("tennis")
  /\ "dark" \in classList

\* C2: after applyTheme(theme) returns (no listener re-entering the API),
\* every key k of theme.colors is on the root as '--theme-' + kebab(k) with
\* exactly theme.colors[k] (backgroundAlt as --theme-background-alt), the
\* 'dark' class is present iff theme.config.isDark, and data-theme is
\* theme.config.id.
C2_ApplyThemeSetsDocument ==
  (IsApply(lastCall) /\ lastCall.listener = None) =>
    LET t   == AppliedTheme
        alt == Prop(Heap[t].colors, <<"b","a","c","k","g","r","o","u","n","d","A","l","t">>)
        altVar == <<"-","-","t","h","e","m","e","-",
                    "b","a","c","k","g","r","o","u","n","d","-","a","l","t">> IN
    /\ ColorsOnRoot(t)
    /\ alt # None => (altVar \in DOMAIN rootStyle /\ rootStyle[altVar] = alt[1])
    /\ ("dark" \in classList) <=> Heap[t].config.isDark
    /\ dataTheme = Some(Heap[t].config.id)

\* a light theme applied while the dark tennis theme was the applied one
C2_Witness ==
  /\ lastCall.op = "setTheme"
  /\ lastCall.arg = "paper"
  /\ lastCall.ret = TRUE
  /\ observed[1].dataTheme = Some("tennis")
  /\ "dark" \notin classList
  /\ dataTheme = Some("paper")

\* C3: a call that applies a theme dispatches exactly one 'theme:change'
\* event, with themeId and isDark of the theme's config and colors the
\* hexToRgb of background, surface, accent, accentHover, accentMuted;
\* accent '#ccff00' gives accent1 = [4/5, 1, 0].
C3_OneThemeChangeEvent ==
  IsApply(lastCall) =>
    LET t == Heap[AppliedTheme]
        accent == <<"a","c","c","e","n","t">> IN
    /\ Len(dispatched) = 1
    /\ dispatched[1].type = "theme:change"
    /\ dispatched[1].detail.themeId = t.config.id
    /\ dispatched[1].detail.isDark = t.config.isDark
    /\ dispatched[1].detail.colors =
         [base    |-> hexToRgb(Prop(t.colors, <<"b","a","c","k","g","r","o","u","n","d">>)),
          lifted  |-> hexToRgb(Prop(t.colors, <<"s","u","r","f","a","c","e">>)),
          accent1 |-> hexToRgb(Prop(t.colors, accent)),
          accent2 |-> hexToRgb(Prop(t.colors, <<"a","c","c","e","n","t","H","o","v","e","r">>)),
          accent3 |-> hexToRgb(Prop(t.colors, <<"a","c","c","e","n","t","M","u","t","e","d">>))]
    /\ Prop(t.colors, accent) = Some(<<"#","c","c","f","f","0","0">>) =>
         dispatched[1].detail.colors.accent1 = <<<<4, 5>>, <<1, 1>>, <<0, 1>>>>

C3_Witness ==
  /\ lastCall.op = "initializeTheme"
  /\ lastCall.ret = "tennisTheme"
  /\ Len(dispatched) = 1
  /\ dispatched[1].detail.colors.accent1 = <<<<4, 5>>, <<1, 1>>, <<0, 1>>>>
  /\ dispatched[1].detail.colors.base = <<<<2, 51>>, <<2, 51>>, <<8, 255>>>>

\* C4: initializeTheme() with no persisted preference applies and returns
\* the registry entry of 'domain-warping'; with a persisted preference equal
\* to any registered id it applies and returns the theme registered under
\* that id.  (The preference is the one getItem returns.)
C4_InitializeUsesPreference ==
  (lastCall.op = "initializeTheme" /\ ~lastCall.getItemThrows) =>
    LET pref == lastCall.arg IN
    /\ pref = None =>
         /\ Some(lastCall.ret) = MapGet(themes, "domain-warping")
         /\ dataTheme = Some("domain-warping")
    /\ (pref # None /\ pref[1] \in RegisteredIds) =>
         /\ Some(lastCall.ret) = MapGet(themes, pref[1])
         /\ dataTheme = pref

\* C5: initializeTheme() with a persisted preference that is not a
\* registered id falls back to the default theme, and in every case it
\* applies the theme it resolved and returns that same object, so the
\* returned theme's id is the data-theme attribute after the call.
C5_InitializeFallsBackAndApplies ==
  lastCall.op = "initializeTheme" =>
    LET pref == lastCall.arg
        ret  == lastCall.ret IN
    /\ (~lastCall.getItemThrows /\ pref # None /\ pref[1] \notin RegisteredIds) =>
         Some(ret) = MapGet(themes, "domain-warping")
    /\ ret \in ThemeRefs
    /\ lastCall.raised = FALSE
    /\ dataTheme = Some(Heap[ret].config.id)
    /\ ColorsOnRoot(ret)
    /\ Len(dispatched) = 1
    /\ dispatched[1].detail.themeId = Heap[ret].config.id

\* an unregistered preference while the default id is bound to a new object
C5_Witness ==
  /\ lastCall.op = "initializeTheme"
  /\ lastCall.getItemThrows = FALSE
  /\ lastCall.arg = Some("paper")
  /\ "paper" \notin RegisteredIds
  /\ lastCall.ret = "altDefaultTheme"
  /\ dataTheme = Some("domain-warping")

\* C6: in every reachable state the registry has the key 'domain-warping',
\* so getDefaultTheme() returns the theme registered under it, never an
\* absent value.
C6_DefaultAlwaysRegistered ==
  /\ "domain-warping" \in RegisteredIds
  /\ MapGet(themes, DEFAULT_THEME_ID) # None
  /\ lastCall.op = "getDefaultTheme" =>
       /\ lastCall.ret \in ThemeRefs
       /\ Some(lastCall.ret) = MapGet(themes, "domain-warping")

C6_Witness ==
  /\ lastCall.op = "getDefaultTheme"
  /\ lastCall.ret = "altDefaultTheme"
  /\ Len(themes) = 4

\* C7: getTheme(id) returns the object registered under id for every id of
\* getThemeIds() and absent for every other id, and hasTheme(id) is true
\* exactly for the ids of getThemeIds().
C7_LookupsAgreeWithIds ==
  LET ids == getThemeIds(themes)
      idSet == {ids[i] : i \in 1..Len(ids)} IN
  /\ \A i \in 1..Len(ids) : getTheme(themes, ids[i]) = Some(themes[i].value)
  /\ \A id \in CallIds \ idSet : getTheme(themes, id) = None
  /\ \A id \in CallIds : hasTheme(themes, id) <=> id \in idSet
  /\ lastCall.op = "getTheme" =>
       IF lastCall.arg \in idSet
       THEN \E i \in 1..Len(ids) :
              ids[i] = lastCall.arg /\ lastCall.ret = Some(themes[i].value)
       ELSE lastCall.ret = None
  /\ lastCall.op = "hasTheme" => (lastCall.ret <=> lastCall.arg \in idSet)

C7_Witness ==
  /\ lastCall.op = "getTheme"
  /\ lastCall.arg = "paper"
  /\ lastCall.ret = Some("paperTheme")
  /\ getThemeIds(themes) = <<"domain-warping", "tennis", "", "paper">>
  /\ getTheme(themes, "domain-warping") = Some("altDefaultTheme")

\* C8: right after registerTheme(theme), getTheme(theme.config.id) is the
\* object just registered, also when the id was bound to a built-in theme,
\* and the entries of all other ids are unchanged.
C8_RegisterThenGet ==
  [][lastCall'.op = "registerTheme" =>
       LET theme == lastCall'.arg
           id    == Heap[theme].config.id IN
       /\ getTheme(themes', id) = Some(theme)
       /\ \A other \in CallIds \ {id} : getTheme(themes', other) = getTheme(themes, other)
       /\ Len(themes') = IF id \in RegisteredIds THEN Len(themes) ELSE Len(themes) + 1]_vars

\* the built-in bound to 'domain-warping' has been overwritten
C8_Witness ==
  /\ lastCall.op = "registerTheme"
  /\ lastCall.arg = "altDefaultTheme"
  /\ getTheme(themes, "domain-warping") = Some("altDefaultTheme")
  /\ getTheme(themes, "tennis") = Some("tennisTheme")
  /\ getTheme(themes, "paper") = Some("paperTheme")

\* the world the call recorded in c would leave with setItem throwing or not
Outcome(c, setItemThrows) ==
  CASE c.op = "applyTheme" -> applyTheme(World, c.arg, Env(setItemThrows))
    [] c.op = "setTheme" -> applyTheme(World, MapGet(themes, c.arg)[1], Env(setItemThrows))
    [] c.op = "initializeTheme" ->
         initializeTheme(World, c.getItemThrows, Env(setItemThrows)).w

\* the state after the step is the world w
StateBecomes(w) ==
  /\ rootStyle' = w.rootStyle
  /\ classList' = w.classList
  /\ styleEls' = w.styleEls
  /\ dataTheme' = w.dataTheme
  /\ dispatched' = w.dispatched

\* C9: setTheme(id) returns true exactly when id is registered at the time
\* of the call, and then document, persisted preference and event are those
\* of applyTheme(getTheme(id)) run on the same prior state, getTheme(id)
\* being the object registered now.
C9_SetThemeIsApplyOfRegistered ==
  [][lastCall'.op = "setTheme" =>
       /\ lastCall'.ret <=> lastCall'.arg \in RegisteredIds
       /\ lastCall'.ret =>
            LET w == applyTheme(World, getTheme(themes, lastCall'.arg)[1],
                                Env(lastCall'.setItemThrows)) IN
            /\ StateBecomes(w)
            /\ localStorage' = w.localStorage
            /\ dispatched'[1].detail.themeId = lastCall'.arg]_vars

\* the default id is set after its built-in object was overwritten
C9_Witness ==
  /\ lastCall.op = "setTheme"
  /\ lastCall.arg = "domain-warping"
  /\ lastCall.ret = TRUE
  /\ getTheme(themes, "domain-warping") = Some("altDefaultTheme")
  /\ dispatched[1].detail.isDark = FALSE
  /\ "dark" \notin classList

\* C10: when setItem throws, a call that applies a theme still completes
\* without raising: custom properties, style element, dark class, event and
\* data-theme are as in the storage-working case, setTheme returns true,
\* and the persisted preference keeps its previous value.
C10_StorageWriteFailureIsSwallowed ==
  [][(/\ lastCall'.setItemThrows
      /\ \/ lastCall'.op \in {"applyTheme", "initializeTheme"}
         \/ lastCall'.op = "setTheme" /\ lastCall'.arg \in RegisteredIds) =>
       /\ lastCall'.raised = FALSE
       /\ lastCall'.op = "setTheme" => lastCall'.ret = TRUE
       /\ StateBecomes(Outcome(lastCall', FALSE))
       /\ Len(dispatched') = 1
       /\ dataTheme' = Some(dispatched'[1].detail.themeId)
       /\ localStorage' = localStorage]_vars

C10_Witness ==
  /\ lastCall.op = "setTheme"
  /\ lastCall.arg = "paper"
  /\ lastCall.ret = TRUE
  /\ lastCall.setItemThrows
  /\ dataTheme = Some("paper")
  /\ localStorage = Some("tennis")

\* C11: when getItem throws, loadThemePreference returns null without
\* raising, and initializeTheme() applies and returns the default theme:
\* return value, document and event are those of the same call made with no
\* preference persisted, whatever the storage held.
C11_StorageReadFailureGivesDefault ==
  [][(lastCall'.op = "initializeTheme" /\ lastCall'.getItemThrows) =>
       LET load    == loadThemePreference(World, TRUE)
           asEmpty == initializeTheme([World EXCEPT !.localStorage = None], FALSE,
                                      Env(lastCall'.setItemThrows)) IN
       /\ lastCall'.raised = FALSE
       /\ load = [raised |-> FALSE, value |-> None]
       /\ lastCall'.ret = asEmpty.ret
       /\ Some(lastCall'.ret) = MapGet(themes, "domain-warping")
       /\ StateBecomes(asEmpty.w)
       /\ localStorage' = IF lastCall'.setItemThrows THEN localStorage
                          ELSE Some("domain-warping")]_vars

\* the read throws while a registered, non-default preference is persisted
C11_Witness ==
  /\ lastCall.op = "initializeTheme"
  /\ lastCall.getItemThrows
  /\ lastCall.arg = Some("tennis")
  /\ lastCall.ret = "domainWarpingTheme"
  /\ lastCall.raised = FALSE
  /\ dataTheme = Some("domain-warping")
  /\ dispatched[1].detail.themeId = "domain-warping"

\* the id of the theme the call recorded in c applied
AppliedId(c) ==
  CASE c.op = "applyTheme" -> Heap[c.arg].config.id
    [] c.op = "initializeTheme" -> Heap[c.ret].config.id
    [] c.op = "setTheme" -> c.arg

\* a content of the storage slot other than the one it has
OtherStored == IF localStorage = None THEN Some("paper") ELSE None

\* C12: with setItem working, every call that applies a theme (setTheme
\* returning true, applyTheme, initializeTheme) leaves the persisted
\* preference equal to the id of the theme it applied; a setTheme that
\* misses, registerTheme and the lookups leave it as it was; and only
\* initializeTheme reads it: the document, event and return value of
\* setTheme and applyTheme are those of the same call made with another
\* content of the slot (empty instead of an id, an id instead of empty),
\* while registerTheme and the lookups are functions of the registry alone.
C12_PreferenceWrittenByApplyOnly ==
  [][/\ (IsApply(lastCall') /\ ~lastCall'.setItemThrows) =>
          localStorage' = Some(AppliedId(lastCall'))
     /\ ~IsApply(lastCall') => localStorage' = localStorage
     /\ lastCall'.op = "setTheme" =>
          LET r == setTheme([World EXCEPT !.localStorage = OtherStored], lastCall'.arg,
                            Env(lastCall'.setItemThrows)) IN
          /\ r.ret = lastCall'.ret
          /\ StateBecomes(r.w)
     /\ lastCall'.op = "applyTheme" =>
          StateBecomes(applyTheme([World EXCEPT !.localStorage = OtherStored], lastCall'.arg,
                                  Env(lastCall'.setItemThrows)))
     /\ lastCall'.op = "registerTheme" => themes' = registerTheme(themes, lastCall'.arg)
     /\ lastCall'.op = "getTheme" => lastCall'.ret = getTheme(themes, lastCall'.arg)
     /\ lastCall'.op = "hasTheme" => lastCall'.ret = hasTheme(themes, lastCall'.arg)
     /\ lastCall'.op = "getThemeIds" => lastCall'.ret = getThemeIds(themes)
     /\ lastCall'.op = "getDefaultTheme" => lastCall'.ret = getDefaultTheme(themes)]_vars

\* a stored preference is replaced by the id of the theme applied next
C12_Witness ==
  /\ lastCall.op = "applyTheme"
  /\ lastCall.arg = "paperTheme"
  /\ ~lastCall.setItemThrows
  /\ observed[1].dataTheme = Some("tennis")
  /\ localStorage = Some("paper")

\* the theme object has every field of ThemeColors
HasAllColors(t) == \A key \in ColorKeys : Prop(Heap[t].colors, key) # None

NoDuplicates(ids) == \A i, j \in 1..Len(ids) : ids[i] = ids[j] => i = j

\* C14: getThemeIds() lists the built-in ids first ('domain-warping', then
\* 'tennis'), then the ids registered at run time in the order of the
\* registerTheme calls that introduced them, each id once: registering a new
\* id appends it, registering a known id and every other call leave the
\* list as it is.
C14_IdsInRegistrationOrder ==
  [][LET ids  == getThemeIds(themes)
         ids2 == getThemeIds(themes') IN
     /\ SubSeq(ids2, 1, 2) = <<"domain-warping", "tennis">>
     /\ NoDuplicates(ids2)
     /\ IF lastCall'.op = "registerTheme"
        THEN LET id == Heap[lastCall'.arg].config.id IN
             ids2 = IF \E i \in 1..Len(ids) : ids[i] = id THEN ids ELSE Append(ids, id)
        ELSE ids2 = ids
     /\ lastCall'.op = "getThemeIds" => lastCall'.ret = ids2]_vars

\* '' was registered before 'paper', and 'domain-warping' registered again
C14_Witness ==
  /\ lastCall.op = "getThemeIds"
  /\ lastCall.ret = <<"domain-warping", "tennis", "", "paper">>
  /\ getTheme(themes, "domain-warping") = Some("altDefaultTheme")

\* C15: no call removes an entry of the registry: every registered id is
\* registered after every step, so hasTheme(id) stays true, and a setTheme
\* of an id registered before the call returns true.
C15_RegistryOnlyGrows ==
  [][/\ RegisteredIds \subseteq {themes'[i].key : i \in 1..Len(themes')}
     /\ Len(themes') >= Len(themes)
     /\ \A id \in CallIds : hasTheme(themes, id) => hasTheme(themes', id)
     /\ (lastCall'.op = "setTheme" /\ hasTheme(themes, lastCall'.arg)) =>
          lastCall'.ret = TRUE]_vars

\* 'paper' is still selectable after a later registration
C15_Witness ==
  /\ lastCall.op = "setTheme"
  /\ lastCall.arg = "paper"
  /\ lastCall.ret = TRUE
  /\ getThemeIds(themes) = <<"domain-warping", "tennis", "paper", "">>

\* C20: applyTheme writes data-theme last.  When the 'theme:change' event
\* of a call is delivered, the custom properties, the style element, the
\* 'dark' class and (setItem working) the persisted preference are those of
\* the new theme, while data-theme still holds the value it had before the
\* call; when data-theme then changes, the event has been dispatched and
\* every other facet is what the event saw.
C20_DataThemeWrittenLast ==
  [][(IsApply(lastCall') /\ lastCall'.listener = None) =>
       LET t    == Heap[IF lastCall'.op = "setTheme"
                        THEN MapGet(themes, lastCall'.arg)[1]
                        ELSE IF lastCall'.op = "applyTheme" THEN lastCall'.arg
                        ELSE lastCall'.ret]
           seen == observed'[1] IN
       /\ Len(dispatched') = 1
       /\ seen.dataTheme = dataTheme
       /\ \A i \in 1..Len(t.colors) :
            seen.rootStyle[CssVar[t.colors[i][1]]] = t.colors[i][2]
       /\ seen.styleEls = IF t.styles = None \/ t.styles[1] = "" THEN << >>
                          ELSE <<t.styles[1]>>
       /\ ("dark" \in seen.classList) <=> t.config.isDark
       /\ seen.localStorage = IF lastCall'.setItemThrows THEN localStorage
                              ELSE Some(t.config.id)
       /\ dataTheme' = Some(t.config.id)
       /\ rootStyle' = seen.rootStyle
       /\ styleEls' = seen.styleEls
       /\ classList' = seen.classList
       /\ localStorage' = seen.localStorage]_vars

\* the event of setTheme('paper') is delivered while data-theme is 'tennis'
C20_Witness ==
  /\ lastCall.op = "setTheme"
  /\ lastCall.arg = "paper"
  /\ lastCall.ret = TRUE
  /\ ~lastCall.setItemThrows
  /\ observed[1].dataTheme = Some("tennis")
  /\ observed[1].localStorage = Some("paper")
  /\ observed[1].styleEls = <<"body { font-family: serif }">>
  /\ "dark" \notin observed[1].classList
  /\ dataTheme = Some("paper")

\* the characters that are hexadecimal digits, in either case
UpperHexDigits == <<"0","1","2","3","4","5","6","7","8","9","A","B","C","D","E","F">>

HexChars == {HexDigits[i] : i \in 1..16} \cup {UpperHexDigits[i] : i \in 1..16}

\* the value of a hexadecimal digit: its place in the digit table
DigitValue(c) == CHOOSE v \in 0..15 : HexDigits[v + 1] = c \/ UpperHexDigits[v + 1] = c

\* the string without its one leading '#', if it has one
Unhashed(hex) == IF Len(hex) > 0 /\ hex[1] = "#" THEN Tail(hex) ELSE hex

\* 0 <= a <= 1
InUnit(a) == ~NumLess(a, <<0, 1>>) /\ ~NumLess(<<1, 1>>, a) /\ a # NaN

\* C16: hexToRgb of six hexadecimal digits, upper or lower case, with or
\* without one leading '#', is the three bytes divided by 255, each in
\* [0,1]; of any other string (empty, three digits, eight digits, a
\* character that is no hexadecimal digit, two '#') it is exactly [0,0,0].
C16_HexToRgbParsesSixDigits ==
  (calc.fn = "hexToRgb" /\ calc.ret # None) =>
    LET digits == Unhashed(calc.args[1])
        rgb    == calc.ret[1] IN
    IF Len(digits) = 6 /\ \A i \in 1..6 : digits[i] \in HexChars
    THEN \A c \in 1..3 :
           /\ rgb[c] = Num(16 * DigitValue(digits[2 * c - 1]) + DigitValue(digits[2 * c]), 255)
           /\ InUnit(rgb[c])
    ELSE rgb = <<<<0, 1>>, <<0, 1>>, <<0, 1>>>>

\* '#aF9cE0' is [175/255, 156/255, 224/255]
C16_Witness ==
  /\ calc.fn = "hexToRgb"
  /\ calc.args[1] = <<"#","a","F","9","c","E","0">>
  /\ calc.ret = Some(<<<<35, 51>>, <<52, 85>>, <<224, 255>>>>)

\* |a|
NumAbs(a) == <<Abs(a[1]), a[2]>>

\* C17: for r, g, b in [0,1] (the multiples of 1 / GridDen), rgbToHex gives
\* a string hexToRgb accepts, and hexToRgb(rgbToHex(r,g,b)) is within 1/255
\* of r, g, b in each channel.
C17_RgbHexRoundTrip ==
  (/\ calc.fn = "rgbToHex" /\ calc.ret # None
   /\ \A c \in 1..3 : InUnit(calc.args[c])) =>
    LET hex  == calc.ret[1]
        back == hexToRgb(Some(hex)) IN
    /\ HexMatch(hex) # None
    /\ \A c \in 1..3 :
         ~NumLess(<<1, 255>>, NumAbs(NumSub(back[c], calc.args[c])))

\* 1/2 is the tie 127.5, rounded up to 0x80; 1/8 is 31.875, rounded to 0x20
C17_Witness ==
  /\ calc.fn = "rgbToHex"
  /\ calc.args = <<<<1, 2>>, <<1, 8>>, <<1, 1>>>>
  /\ calc.ret = Some(<<"#","8","0","2","0","f","f">>)

\* C18: for every channel value, also below 0 or above 1, rgbToHex emits
\* the channel as exactly two hexadecimal digits (a byte 0..255), so the
\* result is '#' followed by six hexadecimal digits, which hexToRgb accepts.
C18_RgbToHexAlwaysSixDigits ==
  (calc.fn = "rgbToHex" /\ calc.ret # None) =>
    LET hex == calc.ret[1] IN
    /\ \A c \in 1..3 :
         LET ch == toHex(calc.args[c]) IN
         Len(ch) = 2 /\ ch[1] \in HexChars /\ ch[2] \in HexChars
    /\ Len(hex) = 7
    /\ hex[1] = "#"
    /\ \A i \in 2..7 : hex[i] \in HexChars
    /\ HexMatch(hex) # None

\* a <= b
NumLeq(a, b) == a = b \/ NumLess(a, b)

\* C19: for e0 < e1 (multiples of 1 / StepDen), smoothstep(e0,e1,x) is
\* t*t*(3-2t) with t = (x-e0)/(e1-e0) limited to [0,1]; it is 0 for x <= e0,
\* 1 for x >= e1, and never larger than smoothstep(e0,e1,y) for y >= x.
C19_SmoothstepMonotone ==
  (calc.fn = "smoothstep" /\ calc.ret # None /\ NumLess(calc.args[1], calc.args[2])) =>
    LET e0  == calc.args[1]
        e1  == calc.args[2]
        x   == calc.args[3]
        ret == calc.ret[1]
        t   == IF NumLeq(x, e0) THEN <<0, 1>>
               ELSE IF NumLeq(e1, x) THEN <<1, 1>>
               ELSE NumDiv(NumSub(x, e0), NumSub(e1, e0)) IN
    /\ ret = NumMul(NumMul(t, t), NumSub(<<3, 1>>, NumMul(<<2, 1>>, t)))
    /\ NumLeq(x, e0) => ret = <<0, 1>>
    /\ NumLeq(e1, x) => ret = <<1, 1>>
    /\ InUnit(ret)
    /\ \A y \in StepGrid : NumLeq(x, y) => NumLeq(ret, smoothstep(e0, e1, y))

\* smoothstep(0, 1, 1/4) = 1/16 * 5/2 = 5/32
C19_Witness ==
  /\ calc.fn = "smoothstep"
  /\ calc.args = <<<<0, 1>>, <<1, 1>>, <<1, 4>>>>
  /\ calc.ret = Some(<<5, 32>>)

\* C21: the document never holds more than one 'theme-styles' element;
\* after a call that applied a theme the element exists with exactly the
\* theme's styles text when that text is non-empty, and no such element
\* exists when the theme has no styles or empty styles: the styles of the
\* theme applied before do not survive.
C21_AtMostOneStyleElement ==
  /\ Len(styleEls) <= 1
  /\ (IsApply(lastCall) /\ lastCall.listener = None) =>
       LET styles == Heap[AppliedTheme].styles IN
       IF styles # None /\ styles[1] # ""
       THEN styleEls = <<styles[1]>>
       ELSE styleEls = << >>

\* tennis (no styles) applied while paper's style element was in the document
C21_Witness ==
  /\ lastCall.op = "setTheme"
  /\ lastCall.arg = "tennis"
  /\ lastCall.ret = TRUE
  /\ observed[1].dataTheme = Some("paper")
  /\ observed[1].styleEls = << >>
  /\ styleEls = << >>

\* C22: applyTheme of the theme object the previous applyTheme applied
\* (setItem behaving the same in both calls) leaves custom properties,
\* style element, dark class, data-theme and persisted preference as the
\* first call left them, and dispatches one event equal to the first one.
C22_ApplyThemeIdempotent ==
  [][(/\ lastCall.op = "applyTheme"
      /\ lastCall'.op = "applyTheme"
      /\ lastCall'.arg = lastCall.arg
      /\ lastCall'.setItemThrows = lastCall.setItemThrows) =>
       /\ UNCHANGED <<rootStyle, styleEls, classList, dataTheme, localStorage>>
       /\ Len(dispatched') = 1
       /\ dispatched' = dispatched]_vars

\* paperTheme applied while it was the applied theme
C22_Witness ==
  /\ lastCall.op = "applyTheme"
  /\ lastCall.arg = "paperTheme"
  /\ observed[1].dataTheme = Some("paper")
  /\ observed[1].localStorage = Some("paper")
  /\ styleEls = <<"body { font-family: serif }">>
  /\ "dark" \notin classList

\* C23: getTheme, getDefaultTheme, hasTheme and getThemeIds change nothing:
\* registry, custom properties, classes, data-theme, style element and
\* persisted preference are as before the call and no event is dispatched.
C23_LookupsArePure ==
  [][lastCall'.op \in {"getTheme", "getDefaultTheme", "hasTheme", "getThemeIds"} =>
       /\ UNCHANGED <<themes, allThemes, rootStyle, classList, dataTheme, styleEls,
                      localStorage>>
       /\ dispatched' = << >>
       /\ observed' = << >>]_vars

\* a lookup of the registered 'paper' while tennis is the applied theme
C23_Witness ==
  /\ lastCall.op = "getTheme"
  /\ lastCall.arg = "paper"
  /\ lastCall.ret = Some("paperTheme")
  /\ dataTheme = Some("tennis")
  /\ localStorage = Some("tennis")
  /\ dispatched = << >>

\* C24: in every state getDefaultTheme() is getTheme('domain-warping'), the
\* object registered under that id now (the new object after an overwrite),
\* and the lookup of the default id never misses, so the '??' fallback to
\* the built-in object is not taken.
C24_DefaultIsRegistryEntry ==
  /\ Some(getDefaultTheme(themes)) = getTheme(themes, "domain-warping")
  /\ MapGet(themes, DEFAULT_THEME_ID) # None
  /\ (lastCall.op = "registerTheme" /\ Heap[lastCall.arg].config.id = "domain-warping") =>
       getDefaultTheme(themes) = lastCall.arg

\* the built-in default has just been overwritten
C24_Witness ==
  /\ lastCall.op = "registerTheme"
  /\ lastCall.arg = "altDefaultTheme"
  /\ getDefaultTheme(themes) = "altDefaultTheme"
  /\ allThemes[1] = "domainWarpingTheme"

\* data-theme is set, equals the persisted preference and names a registered id
Settled == dataTheme # None /\ dataTheme = localStorage /\ dataTheme[1] \in RegisteredIds

\* C26: with setItem working, an initializeTheme call leaves data-theme
\* equal to the persisted preference and naming a registered id, and every
\* later setTheme (hit or miss), registerTheme, initializeTheme and lookup
\* keeps it so: between the operations of such a session data-theme is the
\* persisted preference and a registered id.
C26_DataThemeMatchesPreference ==
  [][/\ (lastCall'.op = "initializeTheme" /\ ~lastCall'.setItemThrows) => Settled'
     /\ (/\ Settled
         /\ lastCall'.op # "applyTheme"
         /\ ~lastCall'.setItemThrows) => Settled']_vars

\* a missed setTheme('paper') in a session whose preference fell back to the default
C26_Witness ==
  /\ lastCall.op = "setTheme"
  /\ lastCall.arg = "paper"
  /\ lastCall.ret = FALSE
  /\ dataTheme = Some("domain-warping")
  /\ localStorage = Some("domain-warping")
  /\ getTheme(themes, "domain-warping") = Some("altDefaultTheme")

\* C27: registerTheme changes the registry only: custom properties, dark
\* class, style element, data-theme and persisted preference are as before
\* and no event is dispatched; when the applied id is registered again with
\* another object the document keeps the colours of the old object.
C27_RegisterChangesRegistryOnly ==
  [][lastCall'.op = "registerTheme" =>
       /\ UNCHANGED <<rootStyle, classList, styleEls, dataTheme, localStorage, allThemes>>
       /\ dispatched' = << >>
       /\ themes' = registerTheme(themes, lastCall'.arg)]_vars

\* 'domain-warping' is applied with the built-in colours and then registered
\* again with another object
C27_Witness ==
  /\ lastCall.op = "registerTheme"
  /\ lastCall.arg = "altDefaultTheme"
  /\ dataTheme = Some("domain-warping")
  /\ getTheme(themes, "domain-warping") = Some("altDefaultTheme")
  /\ rootStyle[<<"-","-","t","h","e","m","e","-","b","a","c","k","g","r","o","u","n","d">>]
       = <<"#","1","f","3","9","1","e">>
  /\ "dark" \in classList

VarNames(colors) == {CssVar[colors[i][1]] : i \in 1..Len(colors)}

\* C30: a call that applies a theme removes no custom property: a property
\* whose key the theme's colors lack keeps the value it had, and every
\* property whose key the colors have holds the theme's value.
C30_PropertiesAreNeverRemoved ==
  [][(IsApply(lastCall') /\ lastCall'.listener = None) =>
       LET colors == Heap[IF lastCall'.op = "setTheme"
                          THEN MapGet(themes, lastCall'.arg)[1]
                          ELSE IF lastCall'.op = "applyTheme" THEN lastCall'.arg
                          ELSE lastCall'.ret].colors IN
       /\ DOMAIN rootStyle' = (DOMAIN rootStyle) \cup VarNames(colors)
       /\ \A n \in (DOMAIN rootStyle) \ VarNames(colors) : rootStyle'[n] = rootStyle[n]
       /\ \A i \in 1..Len(colors) : rootStyle'[CssVar[colors[i][1]]] = colors[i][2]]_vars

\* altDefaultTheme has no textMuted: the property keeps the tennis value
C30_Witness ==
  /\ lastCall.op = "applyTheme"
  /\ lastCall.arg = "altDefaultTheme"
  /\ observed[1].dataTheme = Some("tennis")
  /\ rootStyle[<<"-","-","t","h","e","m","e","-","t","e","x","t","-","m","u","t","e","d">>]
       = <<"#","8","a","8","a","8","0">>
  /\ rootStyle[<<"-","-","t","h","e","m","e","-","t","e","x","t">>]
       = <<"#","2","0","2","0","2","0">>

\* custom properties, dark class, persisted preference and data-theme are
\* all those of theme object t
Describes(t) ==
  /\ ColorsOnRoot(t)
  /\ ("dark" \in classList) = Heap[t].config.isDark
  /\ localStorage = Some(Heap[t].config.id)
  /\ dataTheme = Some(Heap[t].config.id)

\* C25: when a 'theme:change' listener calls setTheme(otherId) during the
\* dispatch of an outer apply, then once the outermost call has returned
\* (setItem working) the custom properties, the dark class, the persisted
\* preference and data-theme all describe one and the same theme.
C25_ReentrantApplyIsConsistent ==
  (/\ IsApply(lastCall)
   /\ lastCall.listener # None
   /\ ~lastCall.setItemThrows
   /\ Len(dispatched) = 2) =>
     \E t \in ThemeRefs : Describes(t)

====
